---- MODULE Spec2Model ----
(***************************************************************************)
(* A model of pwnlib/context/__init__.py: the per-thread stack of context  *)
(* layers (_DictStack, _Tls_DictStack), the validated fields of            *)
(* ContextType, the scoped context manager ContextType.local and the       *)
(* context-inheriting Thread.                                              *)
(*                                                                         *)
(* Python values are records [tag, n, s]: tag is the Python type, n the    *)
(* number of an int / bool / ELF handle, s the characters of a str (one    *)
(* one-character string per element), so that lower(), startswith() and   *)
(* replace() are computed on characters as the code computes them.         *)
(* A dict is a sequence of [k, v] entries in insertion order, which is     *)
(* what Python's dict iteration, and so update of a dict, follows.         *)
(***************************************************************************)
EXTENDS Integers, Sequences, FiniteSets, TLC

VARIABLES tls, sock, default, thr, blocks, last, prev, prev2, actor, ops

vars == <<tls, sock, default, thr, blocks, last, prev, prev2, actor, ops>>

(***************************************************************************)
(* Bounds of the model.                                                    *)
(***************************************************************************)
\* context operations of a run of the single-threaded specification
MaxOps == 3
\* operations of a run on a bare _DictStack
MaxStackOps == 5
\* context operations of a run of the threaded specification
MaxThreadOps == 2
\* threads besides the main thread
MaxThreads == 1
\* saved layers a thread's stack may hold
MaxDepth == 3
\* context operations of a run of the specification of update and local_context
MaxUpdateOps == 2
\* context operations of a run of the specification of the normalizing fields
MaxNormOps == 2
\* the largest byte count written to bytes
MaxBytes == 4
\* context operations of a run of the specification of the process-wide state
MaxSharedOps == 2

(***************************************************************************)
(* Python values.                                                          *)
(***************************************************************************)
PyStr(s) == [tag |-> "str", n |-> 0, s |-> s]
PyInt(n) == [tag |-> "int", n |-> n, s |-> <<>>]
PyBool(b) == [tag |-> "bool", n |-> IF b THEN 1 ELSE 0, s |-> <<>>]
PyNone == [tag |-> "None", n |-> 0, s |-> <<>>]
\* an opaque object (a file, a float, a module constant), named by s
PyObj(name) == [tag |-> "object", n |-> 0, s |-> <<name>>]
\* a list [value] of one str
PyList(s) == [tag |-> "list", n |-> 0, s |-> s]
\* a tuple (socks.SOCKS5, host)
ProxyTuple(host) == [tag |-> "tuple", n |-> 0, s |-> host]

isinstance(v, tag) == v.tag = tag

\* Python truthiness of a value (bool(v), not v)
truthy(v) ==
    CASE v.tag = "None" -> FALSE
      [] v.tag = "int" -> v.n # 0
      [] v.tag = "bool" -> v.n # 0
      [] v.tag = "str" -> v.s # <<>>
      [] v.tag = "tuple" -> TRUE
      [] OTHER -> TRUE

(***************************************************************************)
(* str methods, on sequences of characters.                                *)
(***************************************************************************)
Upper == <<"A", "B", "C", "D", "E", "F", "G", "H", "I", "J", "K", "L", "M",
           "N", "O", "P", "Q", "R", "S", "T", "U", "V", "W", "X", "Y", "Z">>
Lower == <<"a", "b", "c", "d", "e", "f", "g", "h", "i", "j", "k", "l", "m",
           "n", "o", "p", "q", "r", "s", "t", "u", "v", "w", "x", "y", "z">>

lowerchar(c) ==
    IF \E i \in 1..26 : Upper[i] = c
    THEN Lower[CHOOSE i \in 1..26 : Upper[i] = c]
    ELSE c

upperchar(c) ==
    IF \E i \in 1..26 : Lower[i] = c
    THEN Upper[CHOOSE i \in 1..26 : Lower[i] = c]
    ELSE c

\* str.lower()
lower(s) == [i \in 1..Len(s) |-> lowerchar(s[i])]

\* str.upper()
upper(s) == [i \in 1..Len(s) |-> upperchar(s[i])]

\* str.startswith(k)
startswith(s, k) == Len(s) >= Len(k) /\ SubSeq(s, 1, Len(k)) = k

\* the first index at or after from where old occurs in s, 0 if none
find(s, old, from) ==
    LET hits == {i \in from..(Len(s) - Len(old) + 1) : SubSeq(s, i, i + Len(old) - 1) = old}
    IN IF hits = {} THEN 0 ELSE CHOOSE i \in hits : \A j \in hits : i <= j

RECURSIVE replace_from(_, _, _, _, _)
\* str.replace(old, new, count) applied to s from the index from on; count < 0
\* replaces every occurrence (old is never empty here)
replace_from(s, old, new, count, from) ==
    LET i == find(s, old, from)
    IN IF count = 0 \/ i = 0
       THEN s
       ELSE replace_from(SubSeq(s, 1, i - 1) \o new \o SubSeq(s, i + Len(old), Len(s)),
                         old, new, count - 1, i + Len(new))

\* str.replace(old, new[, count])
replace(s, old, new, count) == replace_from(s, old, new, count, 1)

\* string.punctuation: one string of 32 characters (the grave accent, which
\* a TLA+ string cannot hold, is written "grave")
punctuation == <<"!", "\"", "#", "$", "%", "&", "'", "(", ")", "*", "+", ",", "-",
                 ".", "/", ":", ";", "<", "=", ">", "?", "@", "[", "\\", "]", "^",
                 "_", "grave", "{", "|", "}", "~">>

\* the printable ASCII characters in the order of their code points, from
\* the space (32) on
ascii ==
    <<" ">> \o SubSeq(punctuation, 1, 15) \o
    <<"0", "1", "2", "3", "4", "5", "6", "7", "8", "9">> \o
    SubSeq(punctuation, 16, 22) \o Upper \o SubSeq(punctuation, 23, 28) \o
    Lower \o SubSeq(punctuation, 29, 32)

\* ord(ch)
ord(ch) == 31 + (CHOOSE i \in 1..Len(ascii) : ascii[i] = ch)

\* a < b for two str: by the first character that differs, a prefix first
str_lt(a, b) ==
    \E i \in 1..Len(b) :
        /\ \A j \in 1..(i - 1) : j <= Len(a) /\ a[j] = b[j]
        /\ i - 1 <= Len(a)
        /\ (i > Len(a) \/ ord(a[i]) < ord(b[i]))

RECURSIVE sorted(_)
\* sorted(S) for a set (or the keys of a dict) of str
sorted(S) ==
    IF S = {} THEN <<>>
    ELSE LET m == CHOOSE x \in S : \A y \in S \ {x} : str_lt(x, y)
         IN <<m>> \o sorted(S \ {m})

(***************************************************************************)
(* dict, in insertion order.                                               *)
(***************************************************************************)
dict_keys(d) == {d[i].k : i \in 1..Len(d)}

dict_contains(d, k) == \E i \in 1..Len(d) : d[i].k = k

\* d[k] for a key the dict holds
dict_getitem(d, k) == d[CHOOSE i \in 1..Len(d) : d[i].k = k].v

\* d[k] = v: an existing key keeps its place, a new key goes last
dict_setitem(d, k, v) ==
    IF dict_contains(d, k)
    THEN [i \in 1..Len(d) |-> IF d[i].k = k THEN [k |-> k, v |-> v] ELSE d[i]]
    ELSE Append(d, [k |-> k, v |-> v])

\* d.pop(k, None): no error when k is absent
dict_pop(d, k) == SelectSeq(d, LAMBDA e : e.k # k)

RECURSIVE dict_update(_, _)
\* d.update(other)
dict_update(d, other) ==
    IF other = <<>> THEN d
    ELSE dict_update(dict_setitem(d, Head(other).k, Head(other).v), Tail(other))

(***************************************************************************)
(* Constants of ContextType.                                               *)
(***************************************************************************)
s_amd64 == <<"a", "m", "d", "6", "4">>
s_i386 == <<"i", "3", "8", "6">>
s_powerpc == <<"p", "o", "w", "e", "r", "p", "c">>
s_x86_64 == <<"x", "8", "6", "_", "6", "4">>
s_x86 == <<"x", "8", "6">>
s_i686 == <<"i", "6", "8", "6">>
s_ppc == <<"p", "p", "c">>
s_doge == <<"d", "o", "g", "e">>
s_big == <<"b", "i", "g">>
s_little == <<"l", "i", "t", "t", "l", "e">>
s_be == <<"b", "e">>
s_eb == <<"e", "b">>
s_le == <<"l", "e">>
s_el == <<"e", "l">>
s_foobar == <<"f", "o", "o", "b", "a", "r">>
s_linux == <<"l", "i", "n", "u", "x">>
s_freebsd == <<"f", "r", "e", "e", "b", "s", "d">>
s_signed == <<"s", "i", "g", "n", "e", "d">>
s_unsigned == <<"u", "n", "s", "i", "g", "n", "e", "d">>
s_error == <<"e", "r", "r", "o", "r">>
s_localhost == <<"l", "o", "c", "a", "l", "h", "o", "s", "t">>
s_bash == <<"/", "b", "i", "n", "/", "b", "a", "s", "h">>
s_nofile == <<"/", "n", "o", "n", "e">>
s_newline == <<"\n">>

entry(k, v) == [k |-> k, v |-> v]

\* ContextType.defaults (ANDROID_SERIAL unset)
defaults == <<
    entry("arch", PyStr(s_i386)),
    entry("aslr", PyBool(TRUE)),
    entry("binary", PyNone),
    entry("bits", PyInt(32)),
    entry("device", PyNone),
    entry("endian", PyStr(s_little)),
    entry("kernel", PyNone),
    entry("log_level", PyInt(20)),
    entry("log_file", PyObj("_devnull")),
    entry("randomize", PyBool(FALSE)),
    entry("newline", PyStr(s_newline)),
    entry("noptrace", PyBool(FALSE)),
    entry("os", PyStr(s_linux)),
    entry("proxy", PyNone),
    entry("signed", PyBool(FALSE)),
    entry("terminal", PyNone),
    entry("timeout", PyObj("Timeout.maximum")) >>

\* ContextType.oses
oses == {<<"l", "i", "n", "u", "x">>, <<"f", "r", "e", "e", "b", "s", "d">>,
         <<"w", "i", "n", "d", "o", "w", "s">>, <<"c", "g", "c">>,
         <<"a", "n", "d", "r", "o", "i", "d">>}

\* the sub-field defaults of an architecture, in the dicts' own key order
big_32 == <<entry("endian", PyStr(s_big)), entry("bits", PyInt(32))>>
big_64 == <<entry("endian", PyStr(s_big)), entry("bits", PyInt(64))>>
little_8 == <<entry("endian", PyStr(s_little)), entry("bits", PyInt(8))>>
little_16 == <<entry("endian", PyStr(s_little)), entry("bits", PyInt(16))>>
little_32 == <<entry("endian", PyStr(s_little)), entry("bits", PyInt(32))>>
little_64 == <<entry("endian", PyStr(s_little)), entry("bits", PyInt(64))>>

\* ContextType.architectures (lookups only: the order _longest gives the
\* keys plays no part in a lookup)
architectures ==
    <<"a", "a", "r", "c", "h", "6", "4">> :> little_64 @@
    <<"a", "l", "p", "h", "a">> :> little_64 @@
    <<"a", "v", "r">> :> little_8 @@
    <<"a", "m", "d", "6", "4">> :> little_64 @@
    <<"a", "r", "m">> :> little_32 @@
    <<"c", "r", "i", "s">> :> little_32 @@
    <<"i", "3", "8", "6">> :> little_32 @@
    <<"i", "a", "6", "4">> :> big_64 @@
    <<"m", "6", "8", "k">> :> big_32 @@
    <<"m", "i", "p", "s">> :> little_32 @@
    <<"m", "i", "p", "s", "6", "4">> :> little_64 @@
    <<"m", "s", "p", "4", "3", "0">> :> little_16 @@
    <<"p", "o", "w", "e", "r", "p", "c">> :> big_32 @@
    <<"p", "o", "w", "e", "r", "p", "c", "6", "4">> :> big_64 @@
    <<"s", "3", "9", "0">> :> big_32 @@
    <<"s", "p", "a", "r", "c">> :> big_32 @@
    <<"s", "p", "a", "r", "c", "6", "4">> :> big_64 @@
    <<"t", "h", "u", "m", "b">> :> little_32 @@
    <<"v", "a", "x">> :> little_32

\* ContextType.endiannesses
endiannesses ==
    s_be :> s_big @@ s_eb :> s_big @@ s_big :> s_big @@
    s_le :> s_little @@ s_el :> s_little @@ s_little :> s_little

\* the names listed by the AttributeError of ContextType.endian
endian_error == sorted(DOMAIN endiannesses)

\* the names listed by the AttributeError of ContextType.arch
arch_error == sorted(DOMAIN architectures)

\* ContextType.signednesses
signednesses ==
    s_unsigned :> FALSE @@ <<"n", "o">> :> FALSE @@
    <<"y", "e", "s">> :> TRUE @@ s_signed :> TRUE

\* the legacy aliases of ContextType.arch, in the order the code tries them
transform == << <<s_x86_64, s_amd64>>, <<s_x86, s_i386>>,
                <<s_i686, s_i386>>, <<s_ppc, s_powerpc>> >>

(***************************************************************************)
(* The running state of one call: the calling thread's _DictStack          *)
(* (cur = _current, stack = __stack), the process-wide socket.socket,      *)
(* the process-wide dict ContextType.defaults (default), the exception in   *)
(* flight ("" when none) and the value returned.                           *)
(***************************************************************************)
returns(c, v) == [c EXCEPT !.ret = v]
raises(c, e) == [c EXCEPT !.exc = e, !.ret = PyNone]

\* an __init__ that fills _current from the defaults
DictStack_init_filled == [cur |-> defaults, stack |-> <<>>]

\* _DictStack.__init__: an empty _current, no saved layers
DictStack_init == [cur |-> <<>>, stack |-> <<>>]

\* a __missing__ that also takes the key out of the table it has read
defaultdict_missing_pops(c, key) ==
    IF dict_contains(c.default, key)
    THEN returns([c EXCEPT !.default = dict_pop(@, key)], dict_getitem(c.default, key))
    ELSE raises(c, "KeyError")

\* _defaultdict.__missing__ of _current: its default is the (always empty)
\* _defaultdict made in ContextType.__init__, whose own default is the dict
\* ContextType.defaults, one object of the process
defaultdict_missing(c, key) ==
    IF dict_contains(c.default, key)
    THEN returns(c, dict_getitem(c.default, key))
    ELSE raises(c, "KeyError")

\* _DictStack.__getitem__
DictStack_getitem(c, k) ==
    IF dict_contains(c.cur, k)
    THEN returns(c, dict_getitem(c.cur, k))
    ELSE defaultdict_missing(c, k)

\* _DictStack.__setitem__
DictStack_setitem(c, k, v) == [c EXCEPT !.cur = dict_setitem(@, k, v)]

\* _DictStack.__contains__
DictStack_contains(c, k) == dict_contains(c.cur, k)

\* _DictStack.__delitem__: KeyError when k is absent
DictStack_delitem(c, k) ==
    IF dict_contains(c.cur, k)
    THEN [c EXCEPT !.cur = dict_pop(@, k)]
    ELSE raises(c, "KeyError")

\* _DictStack.copy
DictStack_copy(c) == c.cur

\* a push that saves the active layer and starts the new one empty
DictStack_push_fresh(c) == [c EXCEPT !.stack = Append(@, DictStack_copy(c)), !.cur = <<>>]

\* _DictStack.push
DictStack_push(c) == [c EXCEPT !.stack = Append(@, DictStack_copy(c))]

\* a pop that updates _current without clearing it first
DictStack_pop_keeps(c) ==
    IF c.stack = <<>>
    THEN raises(c, "IndexError")
    ELSE [c EXCEPT !.cur = dict_update(@, c.stack[Len(c.stack)]),
                   !.stack = SubSeq(@, 1, Len(@) - 1)]

\* _DictStack.pop: _current is cleared before the list is popped, so an
\* empty list raises IndexError with _current already empty
DictStack_pop(c) ==
    IF c.stack = <<>>
    THEN raises([c EXCEPT !.cur = <<>>], "IndexError")
    ELSE [c EXCEPT !.cur = dict_update(<<>>, c.stack[Len(c.stack)]),
                   !.stack = SubSeq(@, 1, Len(@) - 1)]

(***************************************************************************)
(* Builtins and collaborators the validators call.                         *)
(***************************************************************************)
Digits == <<"0", "1", "2", "3", "4", "5", "6", "7", "8", "9">>

isdigits(s) == s # <<>> /\ \A i \in 1..Len(s) : \E d \in 1..10 : Digits[d] = s[i]

RECURSIVE digits_value(_)
digits_value(s) ==
    IF s = <<>> THEN 0
    ELSE 10 * digits_value(SubSeq(s, 1, Len(s) - 1))
         + (CHOOSE d \in 1..10 : Digits[d] = s[Len(s)]) - 1

\* int(v): an int or bool as it is, a str of decimal digits (with an optional
\* sign) parsed, ValueError for any other str, TypeError for None and objects
builtin_int(c, v) ==
    CASE v.tag \in {"int", "bool"} -> returns(c, PyInt(v.n))
      [] v.tag = "str" ->
            IF isdigits(v.s) THEN returns(c, PyInt(digits_value(v.s)))
            ELSE IF Len(v.s) > 1 /\ v.s[1] = "-" /\ isdigits(Tail(v.s))
                 THEN returns(c, PyInt(0 - digits_value(Tail(v.s))))
            ELSE IF Len(v.s) > 1 /\ v.s[1] = "+" /\ isdigits(Tail(v.s))
                 THEN returns(c, PyInt(digits_value(Tail(v.s))))
            ELSE raises(c, "ValueError")
      [] OTHER -> raises(c, "TypeError")

\* the attributes of the logging module that getattr(logging, NAME) finds
\* among upper-case names: the levels, and the format string BASIC_FORMAT
logging_attrs ==
    <<"C", "R", "I", "T", "I", "C", "A", "L">> :> PyInt(50) @@
    <<"F", "A", "T", "A", "L">> :> PyInt(50) @@
    <<"E", "R", "R", "O", "R">> :> PyInt(40) @@
    <<"W", "A", "R", "N", "I", "N", "G">> :> PyInt(30) @@
    <<"W", "A", "R", "N">> :> PyInt(30) @@
    <<"I", "N", "F", "O">> :> PyInt(20) @@
    <<"D", "E", "B", "U", "G">> :> PyInt(10) @@
    <<"N", "O", "T", "S", "E", "T">> :> PyInt(0) @@
    <<"B", "A", "S", "I", "C", "_", "F", "O", "R", "M", "A", "T">> :> PyObj("logging.BASIC_FORMAT")

\* what binary introspection reports for the files of the model: the
\* handle's number, its arch, bits and endian
ELF_files ==
    s_bash :> [n |-> 1, arch |-> PyStr(s_amd64), bits |-> PyInt(64), endian |-> PyStr(s_little)]

ELF_handles == {ELF_files[f] : f \in DOMAIN ELF_files}

\* an ELF object
PyELF(n) == [tag |-> "ELF", n |-> n, s |-> <<>>]

\* ELF(path): opens and inspects the file, or raises
ELF(c, v) ==
    IF v.tag = "str" /\ v.s \in DOMAIN ELF_files
    THEN returns(c, PyELF(ELF_files[v.s].n))
    ELSE raises(c, "IOError")

\* binary.arch, binary.bits, binary.endian of an ELF object
ELF_attrs(b) == CHOOSE h \in ELF_handles : h.n = b.n

(***************************************************************************)
(* The validated fields of ContextType.  A validator takes the running     *)
(* state and the raw value; it returns the state with ret = the value to   *)
(* store, or with exc set.                                                 *)
(***************************************************************************)
RECURSIVE ContextType_setattr(_, _, _)
RECURSIVE ContextType_update(_, _, _)
RECURSIVE update_kwargs(_, _)
RECURSIVE update_args(_, _)

\* the names defined with @_validator
validated == {"arch", "aslr", "kernel", "bits", "binary", "endian", "log_level",
              "log_file", "os", "randomize", "signed", "timeout", "terminal",
              "proxy", "noptrace", "device"}

\* validated fields whose validators are external I/O or conversions that
\* this model does not cover; no operation of the model names them
not_modelled == {"log_file", "timeout", "device"}

\* ContextType.arch, the alias loop: for k, v in transform
arch_transform(arch) ==
    LET step(a, kv) == IF startswith(a, kv[1]) THEN replace(a, kv[1], kv[2], 1) ELSE a
    IN step(step(step(step(arch, transform[1]), transform[2]), transform[3]), transform[4])

RECURSIVE arch_cascade_from(_, _, _)
arch_cascade_from(c, items, i) ==
    IF i > Len(items) THEN c
    ELSE arch_cascade_from(
            IF ~DictStack_contains(c, items[i].k)
            THEN DictStack_setitem(c, items[i].k, items[i].v)
            ELSE c,
            items, i + 1)

\* a cascade that overwrites sub-fields already in the layer
arch_cascade_overwrites(c, items) == [c EXCEPT !.cur = dict_update(@, items)]

\* ContextType.arch, the cascade: for k, v in architectures[arch].items():
\* if k not in self._tls: self._tls[k] = v
arch_cascade(c, items) == arch_cascade_from(c, items, 1)

\* an arch that writes the sub-fields of the architecture whether or not the
\* layer holds them
ContextType_arch_resets_subfields(c, v) ==
    IF v.tag # "str" THEN raises(c, "AttributeError")
    ELSE LET arch == arch_transform(replace(lower(v.s), punctuation, <<>>, -1))
         IN IF arch \notin DOMAIN architectures
            THEN raises(c, "AttributeError")
            ELSE returns(arch_cascade_overwrites(c, architectures[arch]), PyStr(arch))

\* ContextType.arch
ContextType_arch(c, v) ==
    IF v.tag # "str" THEN raises(c, "AttributeError")
    ELSE LET arch == arch_transform(replace(lower(v.s), punctuation, <<>>, -1))
         IN IF arch \notin DOMAIN architectures
            THEN raises(c, "AttributeError")
            ELSE returns(arch_cascade(c, architectures[arch]), PyStr(arch))

\* ContextType.aslr, randomize, noptrace
ContextType_bool(c, v) == returns(c, PyBool(truthy(v)))

\* a bits that rejects negative values only
ContextType_bits_accepts_zero(c, v) ==
    LET r == builtin_int(c, v)
    IN IF r.exc # "" THEN r
       ELSE IF r.ret.n < 0 THEN raises(c, "AttributeError")
       ELSE r

\* ContextType.bits
ContextType_bits(c, v) ==
    LET r == builtin_int(c, v)
    IN IF r.exc # "" THEN r
       ELSE IF r.ret.n <= 0 THEN raises(c, "AttributeError")
       ELSE r

\* an endian that does not lowercase its input
ContextType_endian_case_sensitive(c, v) ==
    IF v.tag # "str" THEN raises(c, "AttributeError")
    ELSE LET endian == v.s
         IN IF endian \notin DOMAIN endiannesses
            THEN raises(c, "AttributeError")
            ELSE returns(c, PyStr(endiannesses[endian]))

\* ContextType.endian
ContextType_endian(c, v) ==
    IF v.tag # "str" THEN raises(c, "AttributeError")
    ELSE LET endian == lower(v.s)
         IN IF endian \notin DOMAIN endiannesses
            THEN raises(c, "AttributeError")
            ELSE returns(c, PyStr(endiannesses[endian]))

\* ContextType.log_level
ContextType_log_level(c, v) ==
    LET r == builtin_int(c, v)
    IN IF r.exc # "ValueError" THEN r
       ELSE IF upper(v.s) \in DOMAIN logging_attrs
            THEN returns(c, logging_attrs[upper(v.s)])
            ELSE raises(c, "AttributeError")

\* ContextType.os
ContextType_os(c, v) ==
    IF v.tag # "str" THEN raises(c, "AttributeError")
    ELSE IF lower(v.s) \notin oses THEN raises(c, "AttributeError")
    ELSE returns(c, PyStr(lower(v.s)))

\* ContextType.signed
ContextType_signed(c, v) ==
    LET signed == IF v.tag = "str" /\ v.s \in DOMAIN signednesses
                  THEN PyBool(signednesses[v.s])
                  ELSE v
    IN IF isinstance(signed, "str") THEN raises(c, "AttributeError")
       ELSE returns(c, PyBool(truthy(signed)))

\* ContextType.terminal
ContextType_terminal(c, v) ==
    IF isinstance(v, "str") THEN returns(c, PyList(v.s)) ELSE returns(c, v)

\* a proxy that stores None for a falsy value and leaves socket.socket as
\* it is
ContextType_proxy_keeps_socket(c, v) ==
    IF ~truthy(v) THEN returns(c, PyNone)
    ELSE LET proxy == IF isinstance(v, "str") THEN ProxyTuple(v.s) ELSE v
         IN IF proxy.tag \notin {"tuple", "str", "list"}
            THEN raises(c, "AttributeError")
            ELSE returns([c EXCEPT !.sock = "socks.socksocket"], proxy)

\* ContextType.proxy (collections.Iterable: a str or a tuple)
ContextType_proxy(c, v) ==
    IF ~truthy(v) THEN returns([c EXCEPT !.sock = "socket.socket"], PyNone)
    ELSE LET proxy == IF isinstance(v, "str") THEN ProxyTuple(v.s) ELSE v
         IN IF proxy.tag \notin {"tuple", "str", "list"}
            THEN raises(c, "AttributeError")
            ELSE returns([c EXCEPT !.sock = "socks.socksocket"], proxy)

\* an __exit__ that pops and puts the original socket constructor back
LocalContext_exit_resets_socket(c) == [DictStack_pop(c) EXCEPT !.sock = "socket.socket"]

\* LocalContext.__exit__
LocalContext_exit(c) == DictStack_pop(c)

\* an __enter__ that passes every keyword to update, None or not
LocalContext_enter_applies_none(c, kwargs) ==
    ContextType_update(DictStack_push(c), <<>>, kwargs)

\* LocalContext.__enter__
LocalContext_enter(c, kwargs) ==
    ContextType_update(DictStack_push(c), <<>>,
                       SelectSeq(kwargs, LAMBDA e : e.v # PyNone))

\* a kernel that normalises by the arch validator in the active layer itself
ContextType_kernel_in_place(c, v) == ContextType_arch(c, v)

\* ContextType.kernel: with context.local(arch=arch): return context.arch
\* (an exception of __enter__ leaves the with statement before __exit__ is
\* registered)
ContextType_kernel(c, v) ==
    LET e == LocalContext_enter(c, <<entry("arch", v)>>)
        g == DictStack_getitem(e, "arch")
    IN IF e.exc # "" THEN e
       ELSE returns(LocalContext_exit(g), g.ret)

\* a binary that writes arch only and leaves bits and endian to its cascade
ContextType_binary_arch_only(c, v) ==
    LET b == IF isinstance(v, "ELF") THEN returns(c, v) ELSE ELF(c, v)
    IN IF b.exc # "" THEN b
       ELSE LET r1 == ContextType_setattr(b, "arch", ELF_attrs(b.ret).arch)
            IN IF r1.exc # "" THEN r1 ELSE returns(r1, b.ret)

\* ContextType.binary
ContextType_binary(c, v) ==
    LET b == IF isinstance(v, "ELF") THEN returns(c, v) ELSE ELF(c, v)
    IN IF b.exc # "" THEN b
       ELSE LET r1 == ContextType_setattr(b, "arch", ELF_attrs(b.ret).arch)
                r2 == ContextType_setattr(r1, "bits", ELF_attrs(b.ret).bits)
                r3 == ContextType_setattr(r2, "endian", ELF_attrs(b.ret).endian)
            IN IF r1.exc # "" THEN r1
               ELSE IF r2.exc # "" THEN r2
               ELSE IF r3.exc # "" THEN r3
               ELSE returns(r3, b.ret)

\* the function a name's @_validator property wraps
validator(c, name, v) ==
    CASE name = "arch" -> ContextType_arch(c, v)
      [] name \in {"aslr", "randomize", "noptrace"} -> ContextType_bool(c, v)
      [] name = "kernel" -> ContextType_kernel(c, v)
      [] name = "bits" -> ContextType_bits(c, v)
      [] name = "binary" -> ContextType_binary(c, v)
      [] name = "endian" -> ContextType_endian(c, v)
      [] name = "log_level" -> ContextType_log_level(c, v)
      [] name = "os" -> ContextType_os(c, v)
      [] name = "signed" -> ContextType_signed(c, v)
      [] name = "terminal" -> ContextType_terminal(c, v)
      [] name = "proxy" -> ContextType_proxy(c, v)
      [] OTHER -> raises(c, "NotModelled")

\* _validator.fget
validator_fget(c, name) == DictStack_getitem(c, name)

\* an fset that runs the validator and then stores the value it was given
validator_fset_stores_raw(c, name, val) ==
    LET r == validator(c, name, val)
    IN IF r.exc # "" THEN r ELSE returns(DictStack_setitem(r, name, val), PyNone)

\* _validator.fset: self._tls[name] = validator(self, val)
validator_fset(c, name, val) ==
    LET r == validator(c, name, val)
    IN IF r.exc # "" THEN r ELSE returns(DictStack_setitem(r, name, r.ret), PyNone)

\* _validator.fdel: self._tls._current.pop(name, None)
validator_fdel(c, name) == [c EXCEPT !.cur = dict_pop(@, name)]

\* value * 8 of the bytes setter: an int times 8, a str repeated 8 times
times8(c, v) ==
    CASE v.tag \in {"int", "bool"} -> returns(c, PyInt(v.n * 8))
      [] v.tag \in {"str", "list"} ->
            returns(c, [v EXCEPT !.s = @ \o @ \o @ \o @ \o @ \o @ \o @ \o @])
      [] OTHER -> raises(c, "TypeError")

\* ContextType.bytes, the setter: self.bits = value * 8
ContextType_bytes_set(c, v) ==
    LET m == times8(c, v)
    IN IF m.exc # "" THEN m ELSE ContextType_setattr(c, "bits", m.ret)

\* ContextType.bytes, the getter: self.bits // 8
ContextType_bytes_get(c) ==
    LET g == validator_fget(c, "bits")
    IN returns(g, PyInt(g.ret.n \div 8))

\* a setattr that puts any other name into the active layer
ContextType_setattr_stores_any(c, k, v) ==
    CASE k \in validated -> validator_fset(c, k, v)
      [] k = "bytes" -> ContextType_bytes_set(c, v)
      [] k = "endianness" -> ContextType_setattr(c, "endian", v)
      [] k \in {"sign", "signedness"} -> ContextType_setattr(c, "signed", v)
      [] k = "word_size" -> ContextType_setattr(c, "bits", v)
      [] OTHER -> DictStack_setitem(c, k, v)

\* setattr(context, k, v): a property with a setter runs it; any other name
\* fails, because __slots__ leaves the object no __dict__ (the slot _tls
\* itself, which holds the storage object, is outside the model)
ContextType_setattr(c, k, v) ==
    CASE k \in validated -> validator_fset(c, k, v)
      [] k = "bytes" -> ContextType_bytes_set(c, v)
      [] k = "endianness" -> ContextType_setattr(c, "endian", v)
      [] k \in {"sign", "signedness"} -> ContextType_setattr(c, "signed", v)
      [] k = "word_size" -> ContextType_setattr(c, "bits", v)
      [] OTHER -> raises(c, "AttributeError")

\* getattr(context, k): a property runs its getter; any other name of the
\* model is no attribute of the object (names of methods and of class
\* attributes are outside the model)
ContextType_getattr(c, k) ==
    CASE k \in validated -> validator_fget(c, k)
      [] k = "bytes" -> ContextType_bytes_get(c)
      [] k = "endianness" -> validator_fget(c, "endian")
      [] k \in {"sign", "signedness"} -> validator_fget(c, "signed")
      [] k = "word_size" -> validator_fget(c, "bits")
      [] OTHER -> raises(c, "AttributeError")

\* for k, v in kwargs.items(): setattr(self, k, v)
update_kwargs(c, kwargs) ==
    IF kwargs = <<>> THEN c
    ELSE LET r == ContextType_setattr(c, Head(kwargs).k, Head(kwargs).v)
         IN IF r.exc # "" THEN r ELSE update_kwargs(r, Tail(kwargs))

\* for arg in args: self.update(**arg)
update_args(c, args) ==
    IF args = <<>> THEN c
    ELSE LET r == ContextType_update(c, <<>>, Head(args))
         IN IF r.exc # "" THEN r ELSE update_args(r, Tail(args))

\* an update that assigns the keywords before the positional mappings
ContextType_update_keywords_first(c, args, kwargs) ==
    LET r == update_kwargs(c, kwargs)
    IN IF r.exc # "" THEN r ELSE returns(update_args(r, args), PyNone)

\* ContextType.update
ContextType_update(c, args, kwargs) ==
    LET r == update_args(c, args)
    IN IF r.exc # "" THEN r ELSE returns(update_kwargs(r, kwargs), PyNone)

\* ContextType.copy
ContextType_copy(c) == DictStack_copy(c)

\* a clear that also drops the saved layers
ContextType_clear_drops_stack(c, args, kwargs) ==
    LET e == [c EXCEPT !.cur = <<>>, !.stack = <<>>]
    IN IF args # <<>> \/ kwargs # <<>> THEN ContextType_update(e, args, kwargs) ELSE e

\* ContextType.clear
ContextType_clear(c, args, kwargs) ==
    LET e == [c EXCEPT !.cur = <<>>]
    IN IF args # <<>> \/ kwargs # <<>> THEN ContextType_update(e, args, kwargs) ELSE e

\* the names k for which getattr(ContextType, k, None) is a property
properties ==
    validated \cup {"bytes", "endianness", "sign", "signedness", "word_size",
                    "silent", "native", "mask", "abi", "__dict__"}

\* local_context, setter: the keywords that go to context.local
setter_context_args(kwargs) == SelectSeq(kwargs, LAMBDA e : e.k \in properties)

\* local_context, setter: the keywords left for the function
setter_kwargs(kwargs) == SelectSeq(kwargs, LAMBDA e : e.k \notin properties)

\* the function wrapped by local_context in the model: it assigns the fields
\* of body in turn (context.k = v), and a rejected assignment ends it with
\* that exception
function(c, body) == update_kwargs(c, body)

\* local_context, setter, up to the call of the function: the running state
\* the function starts in, one layer deeper with the context keywords
\* applied, or as it is without keywords
setter_entered(c, kwargs) ==
    IF kwargs = <<>> THEN c ELSE LocalContext_enter(c, setter_context_args(kwargs))

\* local_context, setter, from the call of the function on, e being the
\* state setter_entered has given: the function runs unless __enter__ has
\* raised, and __exit__ runs after it when a with-block was entered
setter_returned(e, kwargs, body) ==
    IF e.exc # "" THEN e
    ELSE IF kwargs = <<>> THEN function(e, body)
    ELSE LocalContext_exit(function(e, body))

\* a Thread.__init__ that saves nothing
Thread_init_saves_nothing(c) == <<>>

\* Thread.__init__: self.old = context.copy()
Thread_init(c) == ContextType_copy(c)

\* Thread._bootstrap: context.update(**self.old), then the thread's run
Thread_bootstrap(c, old) == ContextType_update(c, <<>>, old)

(***************************************************************************)
(* The state machine.                                                      *)
(*   tls     the per-thread storage of context._tls: for each storage slot *)
(*           the _DictStack of the thread that owns it                     *)
(*   sock    socket.socket, one variable of the process                    *)
(*   default the dict ContextType.defaults, one object of the process,     *)
(*           which every thread's _current falls back to                   *)
(*   thr     the Thread objects: pc is "none" (not constructed), "init"    *)
(*           (constructed), "started" (start() called), "booted"           *)
(*           (_bootstrap has run, user code is about to start) or "run";   *)
(*           kind is "pwn" (pwnlib.context.Thread), "plain"                *)
(*           (threading.Thread) or "main"; old is Thread.old               *)
(*   blocks  for each thread, the with-blocks of context.local it is in    *)
(* History, kept for stating the properties:                               *)
(*   thr[t].ctor, thr[t].atstart   the constructing thread's active layer  *)
(*           when thread t was constructed, and when it was started        *)
(*   blocks[t][i].cur, .stack      the thread's store when the block was   *)
(*           entered                                                       *)
(*   last, prev, prev2   the last three context operations, newest first:  *)
(*           the thread, the operation, its arguments, the exception it    *)
(*           raised, the value it returned, the store and socket.socket    *)
(*           before it, and for the exit of a with-block the store when    *)
(*           it was entered                                                *)
(*   actor   the thread that took the last step                            *)
(*   ops     the number of context operations so far                       *)
(***************************************************************************)
Threads == 0..MaxThreads

\* _Tls_DictStack as one object shared by all threads
Tls_DictStack_shared(t) == 0

\* _Tls_DictStack(threading.local, _DictStack): the storage slot thread t
\* reaches through context._tls is its own
Tls_DictStack(t) == t

\* the running state a call of thread t starts from
Ctx(t) == [cur |-> tls[Tls_DictStack(t)].cur, stack |-> tls[Tls_DictStack(t)].stack,
           sock |-> sock, default |-> default, exc |-> "", ret |-> PyNone]

NoFrame == [cur |-> <<>>, stack |-> <<>>]

NoOp == [t |-> 0, op |-> "none", name |-> "", val |-> PyNone, args |-> <<>>, kw |-> <<>>,
         exc |-> "", ret |-> PyNone, cur |-> <<>>, stack |-> <<>>, sock |-> "",
         frame |-> NoFrame]

NoThread == [pc |-> "none", kind |-> "plain", old |-> <<>>, parent |-> 0,
             ctor |-> <<>>, atstart |-> <<>>]

Init ==
    /\ tls = [s \in Threads |-> DictStack_init]
    /\ sock = "socket.socket"
    /\ default = defaults
    /\ thr = [t \in Threads |-> IF t = 0 THEN [NoThread EXCEPT !.pc = "run", !.kind = "main"]
                                ELSE NoThread]
    /\ blocks = [t \in Threads |-> <<>>]
    /\ last = NoOp
    /\ prev = NoOp
    /\ prev2 = NoOp
    /\ actor = 0
    /\ ops = 0

\* thread t is running user code
Running(t) == thr[t].pc \in {"booted", "run"}

\* thread t's operation op ends in the running state r
CommitArgs(t, op, name, val, args, kw, frame, r) ==
    \E res \in {r} :
        /\ Running(t)
        /\ Len(res.stack) <= MaxDepth
        /\ tls' = [tls EXCEPT ![Tls_DictStack(t)] = [cur |-> res.cur, stack |-> res.stack]]
        /\ sock' = res.sock
        /\ default' = res.default
        /\ thr' = [thr EXCEPT ![t].pc = "run"]
        /\ prev2' = prev
        /\ prev' = last
        /\ actor' = t
        /\ last' = [t |-> t, op |-> op, name |-> name, val |-> val, args |-> args, kw |-> kw,
                    exc |-> res.exc, ret |-> res.ret, cur |-> Ctx(t).cur, stack |-> Ctx(t).stack,
                    sock |-> sock, frame |-> frame]
        /\ ops' = ops + 1

\* an operation without positional mappings
Commit(t, op, name, val, kw, frame, r) == CommitArgs(t, op, name, val, <<>>, kw, frame, r)

\* context.name = v
SetField(t, name, v) ==
    /\ Commit(t, "set", name, v, <<>>, NoFrame, ContextType_setattr(Ctx(t), name, v))
    /\ UNCHANGED blocks

\* context.name
GetField(t, name) ==
    /\ Commit(t, "get", name, PyNone, <<>>, NoFrame, ContextType_getattr(Ctx(t), name))
    /\ UNCHANGED blocks

\* context.update(*args, **kw)
Update(t, args, kw) ==
    /\ CommitArgs(t, "update", "", PyNone, args, kw, NoFrame, ContextType_update(Ctx(t), args, kw))
    /\ UNCHANGED blocks

\* f(**kwargs) of a function f wrapped by local_context whose body assigns
\* the fields of body; the record of the call keeps the store the function
\* started in (when it did start) and the keywords it received
Call(t, kwargs, body) ==
    \E e \in {setter_entered(Ctx(t), kwargs)} :
        /\ CommitArgs(t, "call", "", PyNone,
                      IF kwargs = <<>> THEN <<>> ELSE <<setter_kwargs(kwargs)>>, kwargs,
                      IF e.exc = "" THEN [cur |-> e.cur, stack |-> e.stack] ELSE NoFrame,
                      setter_returned(e, kwargs, body))
        /\ UNCHANGED blocks

\* del context.name
DelField(t, name) ==
    /\ Commit(t, "del", name, PyNone, <<>>, NoFrame, validator_fdel(Ctx(t), name))
    /\ UNCHANGED blocks

\* context.clear()
Clear(t) ==
    /\ Commit(t, "clear", "", PyNone, <<>>, NoFrame, ContextType_clear(Ctx(t), <<>>, <<>>))
    /\ UNCHANGED blocks

\* with context.local(**kw): entering the block.  When __enter__ raises, the
\* block is not entered and __exit__ will not run.
EnterLocal(t, kw) ==
    LET r == LocalContext_enter(Ctx(t), kw)
    IN /\ Commit(t, "enter", "", PyNone, kw, NoFrame, r)
       /\ blocks' = [blocks EXCEPT ![t] =
                        IF r.exc = ""
                        THEN Append(@, [cur |-> Ctx(t).cur, stack |-> Ctx(t).stack])
                        ELSE @]

\* leaving the innermost with-block, at its end or by an exception passing
\* through it: __exit__ runs
ExitLocal(t) ==
    /\ blocks[t] # <<>>
    /\ Commit(t, "exit", "", PyNone, <<>>, blocks[t][Len(blocks[t])],
              LocalContext_exit(Ctx(t)))
    /\ blocks' = [blocks EXCEPT ![t] = SubSeq(@, 1, Len(@) - 1)]

\* a step of a thread's life, which is not a context operation
Lifecycle(t) ==
    /\ actor' = t
    /\ UNCHANGED <<blocks, last, prev, prev2, ops>>

\* thread t constructs the Thread object of thread u
ThreadInit(t, u, kind) ==
    /\ Running(t)
    /\ thr[u].pc = "none"
    /\ thr' = [thr EXCEPT ![u] = [pc |-> "init", kind |-> kind,
                                  old |-> IF kind = "pwn" THEN Thread_init(Ctx(t)) ELSE <<>>,
                                  parent |-> t,
                                  ctor |-> tls[Tls_DictStack(t)].cur,
                                  atstart |-> <<>>]]
    /\ Lifecycle(t)
    /\ UNCHANGED <<tls, sock, default>>

\* thread t calls u.start()
ThreadStart(t, u) ==
    /\ Running(t)
    /\ thr[u].pc = "init"
    /\ thr' = [thr EXCEPT ![u].pc = "started",
                          ![u].atstart = tls[Tls_DictStack(thr[u].parent)].cur]
    /\ Lifecycle(t)
    /\ UNCHANGED <<tls, sock, default>>

\* thread u begins to run: threading.local gives it a _DictStack of its own,
\* made by _DictStack.__init__ at its first use of context._tls; a
\* pwnlib.context.Thread then runs _bootstrap.  An exception of _bootstrap
\* ends the thread before its user code.
ThreadBootstrap(u) ==
    LET fresh == [Ctx(u) EXCEPT !.cur = DictStack_init.cur, !.stack = DictStack_init.stack]
        r == IF thr[u].kind = "pwn" THEN Thread_bootstrap(fresh, thr[u].old) ELSE fresh
    IN /\ thr[u].pc = "started"
       /\ tls' = [tls EXCEPT ![Tls_DictStack(u)] = [cur |-> r.cur, stack |-> r.stack]]
       /\ sock' = r.sock
       /\ default' = r.default
       /\ thr' = [thr EXCEPT ![u].pc = IF r.exc = "" THEN "booted" ELSE "dead"]
       /\ Lifecycle(u)

(***************************************************************************)
(* The operations on a bare _DictStack.                                    *)
(***************************************************************************)
\* t.push()
Push(t) ==
    /\ Commit(t, "push", "", PyNone, <<>>, NoFrame, DictStack_push(Ctx(t)))
    /\ UNCHANGED blocks

\* t.pop()
Pop(t) ==
    /\ Commit(t, "pop", "", PyNone, <<>>, NoFrame, DictStack_pop(Ctx(t)))
    /\ UNCHANGED blocks

\* t[k] = v
SetItem(t, k, v) ==
    /\ Commit(t, "setitem", k, v, <<>>, NoFrame, DictStack_setitem(Ctx(t), k, v))
    /\ UNCHANGED blocks

\* del t[k]
DelItem(t, k) ==
    /\ Commit(t, "delitem", k, PyNone, <<>>, NoFrame, DictStack_delitem(Ctx(t), k))
    /\ UNCHANGED blocks

(***************************************************************************)
(* The inputs of the operations.                                           *)
(***************************************************************************)
\* the field writes of the single-threaded specification: for each field
\* values its validator accepts and values it rejects
FieldInputs ==
    { <<"arch", PyStr(s_amd64)>>, <<"arch", PyStr(s_ppc)>>, <<"arch", PyStr(s_doge)>>,
      <<"bits", PyInt(8)>>, <<"bits", PyInt(0)>>,
      <<"endian", PyStr(s_be)>>, <<"endian", PyStr(s_foobar)>>,
      <<"os", PyStr(s_freebsd)>>, <<"os", PyStr(s_foobar)>>,
      <<"signed", PyStr(s_signed)>>, <<"signed", PyStr(s_foobar)>>,
      <<"log_level", PyStr(s_error)>>, <<"log_level", PyStr(s_foobar)>>,
      <<"kernel", PyStr(s_amd64)>>, <<"kernel", PyStr(s_doge)>>,
      <<"proxy", PyStr(s_localhost)>>, <<"proxy", PyNone>>, <<"proxy", PyInt(5)>>,
      <<"binary", PyStr(s_bash)>>, <<"binary", PyStr(s_nofile)>>,
      <<"bytes", PyInt(1)>>, <<"bytes", PyInt(0)>> }

DelInputs == {"arch", "bits", "endian"}

LocalInputs ==
    { <<>>, <<entry("arch", PyStr(s_ppc))>>, <<entry("arch", PyStr(s_doge))>>,
      <<entry("bits", PyInt(8)), entry("os", PyStr(s_foobar))>>,
      <<entry("proxy", PyNone)>>,
      <<entry("arch", PyStr(s_amd64)), entry("bits", PyNone)>> }

\* the field writes of the threaded specification
ThreadFieldInputs ==
    { <<"arch", PyStr(s_amd64)>>, <<"bits", PyInt(8)>>, <<"binary", PyStr(s_bash)>> }

ThreadDelInputs == {"bits"}

\* the keys and values put into a bare _DictStack
ItemKeys == {"key", "other"}
ItemValues == {PyStr(<<"v", "a", "l", "u", "e">>), PyStr(<<"v", "a", "l", "u", "e", "2">>)}

\* the raw values written to arch, endian, bits and bytes in the
\* specification of the normalizing fields
ArchInputs ==
    { s_x86_64, s_ppc, s_amd64, s_i686, s_doge,
      <<"P", "P", "C">>, <<"p", "p", "c", "6", "4">>, <<"X", "8", "6">>,
      <<"A", "M", "D", "6", "4">>,
      <<"p", "o", "w", "e", "r", "-", "p", "c">>, <<"a", "m", "d", "-", "6", "4">>,
      <<"i", "3", "8", "6", " ">>, <<"x", "8", "6", "-", "6", "4">> }

EndianInputs ==
    { PyStr(s_be), PyStr(s_eb), PyStr(s_big), PyStr(s_le), PyStr(s_el), PyStr(s_little),
      PyStr(<<"B", "I", "G">>), PyStr(<<"E", "b">>), PyStr(<<"L", "i", "t", "t", "l", "e">>),
      PyStr(s_foobar), PyStr(<<"b">>), PyStr(<<>>), PyInt(5) }

BytesInputs == (0 - 2)..MaxBytes

BitsInputs == {12, 16}

\* the operations of the specification of the process-wide state
SharedWriteInputs == { <<"proxy", PyStr(s_localhost)>>, <<"proxy", PyNone>> }
SharedReadInputs == {"proxy"}
SharedDelInputs == {"proxy"}
SharedLocalInputs == { <<entry("proxy", PyStr(s_localhost))>> }

\* the field names of the specification of update and local_context:
\* recognized ones and unrecognized ones
NameReadInputs == {"arch", "bits", "bytes", "word_size", "architecture", "bit", "newlines"}

NameWriteInputs ==
    { <<"arch", PyStr(s_amd64)>>, <<"bits", PyInt(8)>>, <<"proxy", PyStr(s_localhost)>>,
      <<"architecture", PyStr(s_amd64)>>, <<"bit", PyInt(8)>>, <<"newlines", PyStr(s_newline)>> }

NameLocalInputs ==
    { <<entry("arch", PyStr(s_ppc))>>,
      <<entry("architecture", PyStr(s_amd64))>>,
      <<entry("bits", PyInt(8)), entry("bit", PyInt(8))>>,
      <<entry("architecture", PyNone)>> }

\* the arguments of update: positional mappings, then keywords
UpdateInputs ==
    { << <<>>, <<>> >>,
      << <<>>, <<entry("arch", PyStr(s_ppc)), entry("bits", PyInt(8))>> >>,
      << <<>>, <<entry("bits", PyInt(8)), entry("architecture", PyStr(s_amd64))>> >>,
      << <<>>, <<entry("proxy", PyStr(s_localhost)), entry("kernel", PyStr(s_doge))>> >>,
      << << <<entry("binary", PyStr(s_bash))>> >>, <<entry("arch", PyStr(s_ppc))>> >>,
      << << <<entry("endian", PyStr(s_foobar))>> >>, <<entry("bits", PyInt(8))>> >>,
      << << <<entry("arch", PyStr(s_ppc))>>,
            <<entry("endian", PyStr(s_le)), entry("bits", PyInt(16))>> >>,
         <<entry("binary", PyStr(s_bash))>> >> }

\* the keywords of a call of a wrapped function, and the bodies of the
\* wrapped functions
CallInputs ==
    { <<>>,
      <<entry("arch", PyStr(s_ppc))>>,
      <<entry("arch", PyStr(s_doge))>>,
      <<entry("bits", PyInt(8)), entry("os", PyStr(s_foobar))>>,
      <<entry("count", PyInt(3)), entry("arch", PyStr(s_ppc))>>,
      <<entry("count", PyInt(3))>>,
      <<entry("arch", PyNone)>> }

BodyInputs ==
    { <<>>, <<entry("bits", PyInt(8))>>, <<entry("os", PyStr(s_foobar))>> }

(***************************************************************************)
(* The specifications.                                                     *)
(***************************************************************************)
\* one thread using the context object
Write == ops < MaxOps /\ \E i \in FieldInputs : SetField(0, i[1], i[2])
Delete == ops < MaxOps /\ \E name \in DelInputs : DelField(0, name)
ClearAll == ops < MaxOps /\ Clear(0)
Enter == ops < MaxOps /\ \E kw \in LocalInputs : EnterLocal(0, kw)
Exit == ops < MaxOps /\ ExitLocal(0)

Next == Write \/ Delete \/ ClearAll \/ Enter \/ Exit

Spec == Init /\ [][Next]_vars

\* one thread using a bare _DictStack
StackPush == ops < MaxStackOps /\ Push(0)
StackPop == ops < MaxStackOps /\ Pop(0)
StackSet == ops < MaxStackOps /\ \E k \in ItemKeys, v \in ItemValues : SetItem(0, k, v)
StackDel == ops < MaxStackOps /\ \E k \in ItemKeys : DelItem(0, k)

NextStack == StackPush \/ StackPop \/ StackSet \/ StackDel

SpecStack == Init /\ [][NextStack]_vars

\* one thread writing the fields that normalize their values
NArch == ops < MaxNormOps /\ \E a \in ArchInputs : SetField(0, "arch", PyStr(a))
NEndian == ops < MaxNormOps /\ \E e \in EndianInputs : SetField(0, "endian", e)
NBytes == ops < MaxNormOps /\ \E n \in BytesInputs : SetField(0, "bytes", PyInt(n))
NBits == ops < MaxNormOps /\ \E n \in BitsInputs : SetField(0, "bits", PyInt(n))
NKernel == ops < MaxNormOps /\ \E a \in ArchInputs : SetField(0, "kernel", PyStr(a))
NClear == ops < MaxNormOps /\ Clear(0)

NextNorm == NArch \/ NEndian \/ NBytes \/ NBits \/ NKernel \/ NClear

SpecNorm == Init /\ [][NextNorm]_vars

\* one thread using update, local_context and names that are no fields
UWrite == ops < MaxUpdateOps /\ \E i \in NameWriteInputs : SetField(0, i[1], i[2])
URead == ops < MaxUpdateOps /\ \E name \in NameReadInputs : GetField(0, name)
UUpdate == ops < MaxUpdateOps /\ \E i \in UpdateInputs : Update(0, i[1], i[2])
UEnter == ops < MaxUpdateOps /\ \E kw \in NameLocalInputs : EnterLocal(0, kw)
UExit == ops < MaxUpdateOps /\ ExitLocal(0)
UCall == ops < MaxUpdateOps /\ \E kw \in CallInputs, body \in BodyInputs : Call(0, kw, body)

NextUpdate == UWrite \/ URead \/ UUpdate \/ UEnter \/ UExit \/ UCall

SpecUpdate == Init /\ [][NextUpdate]_vars

\* several threads and the state of the process they share: socket.socket
\* and the dict ContextType.defaults
SWrite == ops < MaxSharedOps /\ \E t \in Threads, i \in SharedWriteInputs : SetField(t, i[1], i[2])
SRead == ops < MaxSharedOps /\ \E t \in Threads, name \in SharedReadInputs : GetField(t, name)
SDelete == ops < MaxSharedOps /\ \E t \in Threads, name \in SharedDelInputs : DelField(t, name)
SClear == ops < MaxSharedOps /\ \E t \in Threads : Clear(t)
SEnter == ops < MaxSharedOps /\ \E t \in Threads, kw \in SharedLocalInputs : EnterLocal(t, kw)
SExit == ops < MaxSharedOps /\ \E t \in Threads : ExitLocal(t)
SInit == \E t \in Threads, u \in Threads, kind \in {"pwn", "plain"} : ThreadInit(t, u, kind)
SStart == \E t \in Threads, u \in Threads : ThreadStart(t, u)
SBootstrap == \E u \in Threads : ThreadBootstrap(u)

NextShared ==
    SWrite \/ SRead \/ SDelete \/ SClear \/ SEnter \/ SExit \/ SInit \/ SStart \/ SBootstrap

SpecShared == Init /\ [][NextShared]_vars

\* several threads using the context object
TWrite == ops < MaxThreadOps /\ \E t \in Threads, i \in ThreadFieldInputs : SetField(t, i[1], i[2])
TDelete == ops < MaxThreadOps /\ \E t \in Threads, name \in ThreadDelInputs : DelField(t, name)
TClear == ops < MaxThreadOps /\ \E t \in Threads : Clear(t)
TEnter == ops < MaxThreadOps /\ \E t \in Threads : EnterLocal(t, <<>>)
TExit == ops < MaxThreadOps /\ \E t \in Threads : ExitLocal(t)
TInit == \E t \in Threads, u \in Threads, kind \in {"pwn", "plain"} : ThreadInit(t, u, kind)
TStart == \E t \in Threads, u \in Threads : ThreadStart(t, u)
TBootstrap == \E u \in Threads : ThreadBootstrap(u)

NextThreads ==
    TWrite \/ TDelete \/ TClear \/ TEnter \/ TExit \/ TInit \/ TStart \/ TBootstrap

SpecThreads == Init /\ [][NextThreads]_vars

(***************************************************************************)
(* Properties.                                                             *)
(***************************************************************************)
\* the recognized fields
Fields == dict_keys(defaults)

\* thread t's store
Store(t) == tls[Tls_DictStack(t)]

\* what thread t reads for field f: context.f
Read(t, f) == validator_fget(Ctx(t), f).ret

\* what a thread whose active layer is layer reads for field f
LayerRead(layer, f) ==
    IF dict_contains(layer, f) THEN dict_getitem(layer, f) ELSE dict_getitem(defaults, f)

\* two layers hold the same keys with the same values
SameLayer(a, b) ==
    /\ dict_keys(a) = dict_keys(b)
    /\ \A k \in dict_keys(a) : dict_getitem(a, k) = dict_getitem(b, k)

\* C1: once the outermost with-block of context.local has been left, the
\* thread's active layer holds the keys and values it held before that
\* block was entered, and every field reads as it did then.
C1_LocalRestoresState ==
    (last.op = "exit" /\ blocks[last.t] = <<>>)
        => /\ SameLayer(Store(last.t).cur, last.frame.cur)
           /\ \A f \in Fields : Read(last.t, f) = LayerRead(last.frame.cur, f)

\* C2: push(); set(k, v); pop() on a _DictStack leaves the active layer (and
\* the saved layers) as they were before the push.
C2_PushSetPop ==
    (last.op = "pop" /\ prev.op = "setitem" /\ prev2.op = "push")
        => /\ Store(0).cur = prev2.cur
           /\ Store(0).stack = prev2.stack

\* C2, its case: the key that was set inside held another value before the push
C2_Witness ==
    /\ last.op = "pop" /\ prev.op = "setitem" /\ prev2.op = "push"
    /\ dict_contains(prev2.cur, prev.name)
    /\ dict_getitem(prev2.cur, prev.name) # prev.val
    /\ dict_getitem(Store(0).cur, prev.name) # prev.val

\* C3: when the user code of a pwnlib.context.Thread starts, every field
\* reads in the new thread what it read in the constructing thread when the
\* Thread was constructed.
C3_ChildReadsWhatParentRead ==
    \A u \in Threads :
        (thr[u].pc = "booted" /\ thr[u].kind = "pwn")
            => \A f \in Fields : Read(u, f) = LayerRead(thr[u].ctor, f)

\* C4: a step of one thread changes no other thread's active layer or saved
\* layers.
C4_ThreadsAreIsolated ==
    [][\A u \in Threads : Store(u)' # Store(u) => actor' = u]_vars

\* C4, its case: a spawned thread has just written a field while the main
\* thread holds a layer of its own
C4_Witness ==
    /\ actor = 1 /\ last.t = 1 /\ last.op = "set" /\ last.exc = ""
    /\ Store(0).cur # <<>>
    /\ Store(1).cur # Store(0).cur

\* C5: a threading.Thread starts its user code with an empty active layer
\* and no saved layers, so every field reads its default.
C5_PlainThreadStartsClean ==
    \A u \in Threads :
        (thr[u].pc = "booted" /\ thr[u].kind = "plain")
            => /\ Store(u).cur = <<>>
               /\ Store(u).stack = <<>>
               /\ \A f \in Fields : Read(u, f) = dict_getitem(defaults, f)

\* C5, its case: the spawning thread held a layer of its own at the spawn
\* and still holds one
C5_Witness ==
    \E u \in Threads :
        /\ thr[u].pc = "booted" /\ thr[u].kind = "plain"
        /\ thr[u].ctor # <<>>
        /\ Store(thr[u].parent).cur # <<>>

ArchWritten(op) == op.op = "set" /\ op.name = "arch" /\ op.exc = ""

C8_CascadedValuesAreNotUserSet ==
    ( /\ ArchWritten(prev) /\ ArchWritten(last)
      /\ ~dict_contains(prev.cur, "bits")
      /\ ~dict_contains(prev.cur, "endian") )
        => \A sub \in {"bits", "endian"} :
              Read(last.t, sub) = dict_getitem(architectures[Read(last.t, "arch").s], sub)

\* C9: a field write that raises leaves the active layer and the saved
\* layers of the calling thread as they were.
C9_RejectedWriteLeavesStore ==
    (last.op = "set" /\ last.exc # "")
        => /\ Store(last.t).cur = last.cur
           /\ Store(last.t).stack = last.stack

\* C10: when a scope of context.local has ended, by its exit or by an error
\* while entering it, the thread has as many saved layers as before the
\* scope began.
C10_LocalPopsWhatItPushed ==
    /\ last.op = "exit" => Len(Store(last.t).stack) = Len(last.frame.stack)
    /\ (last.op = "enter" /\ last.exc # "") => Len(Store(last.t).stack) = Len(last.stack)

\* C11: after clear() the active layer holds no key, every field reads its
\* value in ContextType.defaults and the saved layers are as they were; a
\* with-block of context.local that is entered, cleared and left puts the
\* layer and the saved layers back as they were before it.
C11_ClearGivesDefaults ==
    /\ last.op = "clear"
          => /\ Store(last.t).cur = <<>>
             /\ \A f \in Fields : Read(last.t, f) = dict_getitem(defaults, f)
             /\ Store(last.t).stack = last.stack
    /\ (last.op = "exit" /\ prev.op = "clear" /\ prev2.op = "enter" /\ prev2.exc = "")
          => /\ Store(last.t).cur = prev2.cur
             /\ Store(last.t).stack = prev2.stack

\* C11, its case: the layer that was cleared held keys, inside a with-block
\* whose saved layer holds keys too
C11_Witness ==
    /\ last.op = "clear"
    /\ last.cur # <<>>
    /\ last.stack # <<>>
    /\ last.stack[Len(last.stack)] # <<>>
    /\ Store(last.t).stack = last.stack

\* the names of the fields: the keys of ContextType.defaults and the aliases
Recognized == Fields \cup {"bytes", "endianness", "sign", "signedness", "word_size"}

\* the keys of update's arguments, positional mappings first
RECURSIVE Flatten(_)
Flatten(args) == IF args = <<>> THEN <<>> ELSE Head(args) \o Flatten(Tail(args))

\* some entry of a dict names no field
NamesUnrecognized(d) == \E i \in 1..Len(d) : d[i].k \notin Recognized

\* C12: a read or a write of a name that is no field raises AttributeError
\* and changes no layer, update and local with a value for such a name raise
\* AttributeError, and the keys of every layer of every thread, active or
\* saved, are keys of ContextType.defaults.
C12_UnrecognizedNamesRaise ==
    /\ \A t \in Threads :
          /\ dict_keys(Store(t).cur) \subseteq Fields
          /\ \A i \in 1..Len(Store(t).stack) : dict_keys(Store(t).stack[i]) \subseteq Fields
    /\ (last.op \in {"get", "set"} /\ last.name \notin Recognized)
          => /\ last.exc = "AttributeError"
             /\ last.ret = PyNone
             /\ Store(last.t).cur = last.cur
             /\ Store(last.t).stack = last.stack
    /\ (last.op = "update" /\ NamesUnrecognized(Flatten(last.args) \o last.kw))
          => last.exc = "AttributeError"
    /\ (last.op = "enter" /\ NamesUnrecognized(SelectSeq(last.kw, LAMBDA e : e.v # PyNone)))
          => last.exc = "AttributeError"

\* C12, its case: update was given a field and then a name that is no
\* field; the field was written by the time the name was rejected
C12_Witness ==
    /\ last.op = "update"
    /\ NamesUnrecognized(last.kw)
    /\ last.exc = "AttributeError"
    /\ Store(last.t).cur # last.cur

\* C13: bytes = n stores bits = 8 * n when n >= 1 and then reads back n; it
\* raises and leaves the layer, and so bits, as they were when n <= 0; and
\* in every state bytes reads the floor of bits / 8.
C13_BytesIsBitsOver8 ==
    /\ LET b == ContextType_getattr(Ctx(0), "bytes").ret.n
           bits == Read(0, "bits").n
       IN 8 * b <= bits /\ bits < 8 * b + 8
    /\ (last.op = "set" /\ last.name = "bytes" /\ last.val.n >= 1)
          => /\ last.exc = ""
             /\ dict_contains(Store(last.t).cur, "bits")
             /\ Read(last.t, "bits") = PyInt(8 * last.val.n)
             /\ ContextType_getattr(Ctx(last.t), "bytes").ret = last.val
    /\ (last.op = "set" /\ last.name = "bytes" /\ last.val.n <= 0)
          => /\ last.exc = "AttributeError"
             /\ Store(last.t).cur = last.cur
             /\ Read(last.t, "bits") = LayerRead(last.cur, "bits")

\* C13, its case: bits was no multiple of 8 when bytes was written
C13_Witness ==
    /\ last.op = "set" /\ last.name = "bytes" /\ last.val.n >= 2
    /\ dict_contains(last.cur, "bits")
    /\ dict_getitem(last.cur, "bits").n % 8 # 0
    /\ Read(last.t, "bits").n = 8 * last.val.n

\* the alphanumeric characters of s
isalnum(ch) == \E i \in 1..Len(ascii) : ascii[i] = ch /\ (i \in 17..26 \/ i \in 34..59 \/ i \in 66..91)
alnum_only(s) == SelectSeq(s, isalnum)

\* C14: a write of arch whose input, once lowercased, stripped of every
\* non-alphanumeric character and passed through the legacy aliases, is a
\* key of the architectures table succeeds and stores that key.
C14_ArchStripsNonAlphanumerics ==
    (last.op = "set" /\ last.name = "arch" /\ last.val.tag = "str")
        => LET arch == arch_transform(alnum_only(lower(last.val.s)))
           IN arch \in DOMAIN architectures
                 => /\ last.exc = ""
                    /\ Read(last.t, "arch") = PyStr(arch)

\* C15: a write of endian stores 'big' for an input that lowercases to
\* 'be', 'eb' or 'big' and 'little' for one that lowercases to 'le', 'el'
\* or 'little'; any other input raises AttributeError, whose message lists
\* be, big, eb, el, le, little, and leaves the layer as it was.
C15_EndianNormalizes ==
    (last.op = "set" /\ last.name = "endian")
        => LET e == IF last.val.tag = "str" THEN lower(last.val.s) ELSE <<>>
           IN /\ e \in {s_be, s_eb, s_big}
                    => last.exc = "" /\ Read(last.t, "endian") = PyStr(s_big)
              /\ e \in {s_le, s_el, s_little}
                    => last.exc = "" /\ Read(last.t, "endian") = PyStr(s_little)
              /\ e \notin {s_be, s_eb, s_big, s_le, s_el, s_little}
                    => /\ last.exc = "AttributeError"
                       /\ endian_error = <<s_be, s_big, s_eb, s_el, s_le, s_little>>
                       /\ Store(last.t).cur = last.cur
                       /\ Read(last.t, "endian") = LayerRead(last.cur, "endian")

\* C15, its case: an input in mixed case replaced the other endianness,
\* which had been written before
C15_Witness ==
    /\ last.op = "set" /\ last.name = "endian" /\ last.exc = ""
    /\ last.val.s # lower(last.val.s)
    /\ dict_contains(last.cur, "endian")
    /\ dict_getitem(last.cur, "endian") # Read(last.t, "endian")
    /\ Read(last.t, "endian") = PyStr(s_big)

\* the single assignments context.k = v for the entries of items, in their
\* order, up to the first one that raises
RECURSIVE Assignments(_, _)
Assignments(c, items) ==
    IF items = <<>> \/ c.exc # "" THEN c
    ELSE Assignments(ContextType_setattr(c, Head(items).k, Head(items).v), Tail(items))

\* the running state an operation started from, by its record
Before(op) ==
    [cur |-> op.cur, stack |-> op.stack, sock |-> op.sock, default |-> default,
     exc |-> "", ret |-> PyNone]

\* C16: update(m1, ..., mk, **kw) ends in the state, and with the exception,
\* of the single assignments of every key of m1, ..., mk in turn and then of
\* every keyword.
C16_UpdateIsAssignmentsInOrder ==
    last.op = "update"
        => LET r == Assignments(Before(last), Flatten(last.args) \o last.kw)
           IN /\ Store(last.t).cur = r.cur
              /\ Store(last.t).stack = r.stack
              /\ sock = r.sock
              /\ last.exc = r.exc

\* C16, its case: a keyword came after a positional mapping that had set
\* bits and endian, so the cascade of the keyword's arch found them present
C16_Witness ==
    /\ last.op = "update" /\ last.exc = ""
    /\ last.args # <<>> /\ last.kw # <<>>
    /\ last.kw[1].k = "arch"
    /\ ~dict_contains(last.cur, "bits")
    /\ Read(last.t, "arch") = PyStr(s_powerpc)
    /\ Read(last.t, "bits") = PyInt(64)

\* the last operation was a successful write of binary
BinaryWritten(op) == op.op = "set" /\ op.name = "binary" /\ op.exc = ""

\* C17: after a successful write of binary the active layer holds the ELF
\* object, and arch, bits and endian read what the ELF object reports (its
\* arch as the arch validator stores it), whatever the layer held for them.
C17_BinaryOverrides ==
    BinaryWritten(last)
        => LET b == Read(last.t, "binary")
           IN /\ b.tag = "ELF"
              /\ {"arch", "bits", "endian"} \subseteq dict_keys(Store(last.t).cur)
              /\ Read(last.t, "arch") = PyStr(arch_transform(lower(ELF_attrs(b).arch.s)))
              /\ Read(last.t, "bits") = ELF_attrs(b).bits
              /\ Read(last.t, "endian") = ELF_attrs(b).endian

\* C17, its case: the layer held other values for all three fields
C17_Witness ==
    /\ BinaryWritten(last)
    /\ {"arch", "bits", "endian"} \subseteq dict_keys(last.cur)
    /\ \A f \in {"arch", "bits", "endian"} : dict_getitem(last.cur, f) # Read(last.t, f)

\* C18: after a call of a function wrapped by local_context with keywords
\* that name context fields, whether the call returned or raised, the
\* caller's active layer and saved layers are what they were before it.
C18_WrappedCallRestores ==
    (last.op = "call" /\ setter_context_args(last.kw) # <<>>)
        => /\ Store(last.t).cur = last.cur
           /\ Store(last.t).stack = last.stack

\* C19: pop() on a _DictStack with no saved layer raises IndexError and
\* leaves the active layer holding what it held.
C19_FailedPopKeepsLayer ==
    (last.op = "pop" /\ last.stack = <<>>)
        => /\ last.exc = "IndexError"
           /\ Store(last.t).cur = last.cur

\* C20: del context.f raises nothing, takes f out of the active layer and
\* leaves the saved layers alone; f then reads the value the newest saved
\* layer holds for it, and its default when there is no saved layer or
\* that layer does not hold f.
C20_DeleteRevealsSavedLayer ==
    last.op = "del"
        => LET saved == Store(last.t).stack
           IN /\ last.exc = ""
              /\ ~dict_contains(Store(last.t).cur, last.name)
              /\ saved = last.stack
              /\ Read(last.t, last.name) =
                    IF saved # <<>> /\ dict_contains(saved[Len(saved)], last.name)
                    THEN dict_getitem(saved[Len(saved)], last.name)
                    ELSE dict_getitem(defaults, last.name)

\* the last step was a successful write of proxy by thread last.t
ProxyWritten == last.op = "set" /\ last.name = "proxy" /\ last.exc = ""

\* what a successful write of proxy leaves behind
ProxyWriteDone ==
    ProxyWritten
        => IF truthy(last.val)
           THEN /\ sock = "socks.socksocket"
                /\ Read(last.t, "proxy") = ProxyTuple(last.val.s)
           ELSE /\ sock = "socket.socket"
                /\ dict_contains(Store(last.t).cur, "proxy")
                /\ Read(last.t, "proxy") = PyNone

\* C21: every step that is a write of proxy with a falsy value puts the original socket
\* constructor back as socket.socket and stores None; a write with a host
\* installs the proxied constructor; socket.socket is one variable of the
\* process, so either holds whatever the other threads have stored.
C21_ProxyIsProcessWide == [][ops' = ops + 1 => ProxyWriteDone']_vars

\* C21, its case: one thread has written proxy = None after another had
\* written a host, and that thread still holds the host
C21_Witness ==
    /\ ProxyWritten /\ last.val = PyNone /\ actor = last.t
    /\ last.sock = "socks.socksocket"
    /\ sock = "socket.socket"
    /\ \E u \in Threads \ {last.t} :
          /\ dict_contains(Store(u).cur, "proxy")
          /\ Read(u, "proxy") = ProxyTuple(s_localhost)

\* the last step entered `with context.local(arch = B)` without an exception
ArchScopeEntered ==
    /\ last.op = "enter" /\ last.exc = ""
    /\ Len(last.kw) = 1 /\ last.kw[1].k = "arch"

NoneFields(op) == { op.kw[i].k : i \in { j \in 1..Len(op.kw) : op.kw[j].v = PyNone } }

\* the fields local(**kw) of the last step was given a value for
GivenFields(op) == { op.kw[i].k : i \in { j \in 1..Len(op.kw) : op.kw[j].v # PyNone } }

\* the stored field a property name reads
StoredField(k) ==
    CASE k \in {"bytes", "word_size"} -> "bits"
      [] k = "endianness" -> "endian"
      [] k \in {"sign", "signedness"} -> "signed"
      [] OTHER -> k

\* the stored fields a write of property k can write
Writes(k) ==
    IF StoredField(k) \in {"arch", "binary"}
    THEN {StoredField(k), "arch", "bits", "endian"}
    ELSE {StoredField(k)}

\* C23, as amended: local(**kw) pushes and then assigns the keywords that
\* are not None, in order, and no others; a field given None reads inside
\* the scope what it read before entry unless another keyword of the call
\* writes the field it stands for (an alias of it, or arch and binary
\* cascading into bits and endian); socket.socket is as before when proxy
\* is given None.
C23_NoneFieldsAreSkipped ==
    last.op = "enter"
        => LET r == Assignments(DictStack_push(Before(last)),
                                SelectSeq(last.kw, LAMBDA e : e.v # PyNone))
           IN /\ Store(last.t).cur = r.cur
              /\ Store(last.t).stack = r.stack
              /\ sock = r.sock
              /\ last.exc = r.exc
              /\ last.exc = ""
                    => \A f \in NoneFields(last) :
                          \/ \E k \in GivenFields(last) : StoredField(f) \in Writes(k)
                          \/ /\ ContextType_getattr(Ctx(last.t), f).ret
                                    = ContextType_getattr(Before(last), f).ret
                             /\ f = "proxy" => sock = last.sock

\* C23, its case: local(proxy = None) entered while the outer layer holds a
\* proxy: the scope reads that proxy and socket.socket is still proxied
C23_Witness ==
    /\ last.op = "enter" /\ last.exc = ""
    /\ NoneFields(last) = {"proxy"}
    /\ dict_contains(last.cur, "proxy")
    /\ Read(last.t, "proxy") = ProxyTuple(s_localhost)
    /\ sock = "socks.socksocket"

\* C23, as first stated: every field given None reads inside the scope what
\* it read immediately before entry.
C23_NoneFieldsReadAsBefore ==
    (last.op = "enter" /\ last.exc = "")
        => \A f \in NoneFields(last) :
              ContextType_getattr(Ctx(last.t), f).ret = ContextType_getattr(Before(last), f).ret

\* C24: the dict ContextType.defaults holds at every moment the entries it
\* held at process start, whatever the threads have written, deleted,
\* cleared, entered, left and spawned; a successful write of a field is in
\* the active layer of the thread that wrote it and leaves that thread's
\* saved layers as they were.
C24_DefaultsNeverMutated ==
    /\ default = defaults
    /\ (last.op = "set" /\ last.exc = "" /\ actor = last.t)
          => /\ dict_contains(Store(last.t).cur, StoredField(last.name))
             /\ Store(last.t).stack = last.stack

\* C24, its case: a thread has read a field none of its layers held, getting
\* the entry of ContextType.defaults, and then a spawned thread has written
\* that field in its own layer
C24_Witness ==
    /\ prev.op = "get" /\ prev.exc = ""
    /\ ~dict_contains(prev.cur, prev.name)
    /\ prev.ret = dict_getitem(defaults, prev.name)
    /\ last.op = "set" /\ last.exc = "" /\ last.name = prev.name
    /\ last.t # prev.t /\ thr[last.t].kind = "pwn"
    /\ ~dict_contains(Store(prev.t).cur, prev.name)
    /\ dict_getitem(Store(last.t).cur, last.name) # dict_getitem(default, last.name)

\* C25: in every reachable state, for every thread, arch reads a key of
\* architectures, endian reads 'big' or 'little', bits reads an int greater
\* than 0, os reads a member of oses and signed reads a bool.
C25_FieldsReadValidValues ==
    \A t \in Threads :
        /\ Read(t, "arch").tag = "str" /\ Read(t, "arch").s \in DOMAIN architectures
        /\ Read(t, "endian") \in {PyStr(s_big), PyStr(s_little)}
        /\ Read(t, "bits").tag = "int" /\ Read(t, "bits").n > 0
        /\ Read(t, "os").tag = "str" /\ Read(t, "os").s \in oses
        /\ Read(t, "signed").tag = "bool"

\* C25, its case: the five fields are all in the active layer, written or
\* cascaded from inputs the validators had to normalise ('ppc', 'signed'),
\* and four of them read another value than their default
C25_Witness ==
    /\ \A f \in {"arch", "endian", "bits", "os", "signed"} : dict_contains(Store(0).cur, f)
    /\ \A f \in {"arch", "endian", "os", "signed"} : Read(0, f) # dict_getitem(defaults, f)
    /\ last.op = "set" /\ last.exc = "" /\ last.val \in {PyStr(s_ppc), PyStr(s_signed)}

\* the last step was a successful write of kernel
KernelWritten == last.op = "set" /\ last.name = "kernel" /\ last.exc = ""

\* C26: a successful kernel = A leaves the active layer as it was but for
\* the key kernel, which holds the name an arch write of A would have
\* stored, a key of architectures; arch, bits and endian of the layer, the
\* saved layers and socket.socket are as before the write.
C26_KernelWritesKernelOnly ==
    KernelWritten
        => /\ Store(last.t).cur =
                 dict_setitem(last.cur, "kernel", ContextType_arch(Before(last), last.val).ret)
           /\ Read(last.t, "kernel").s \in DOMAIN architectures
           /\ Store(last.t).stack = last.stack
           /\ sock = last.sock

\* C26, its case: kernel was written with a name that had to be normalised,
\* in a layer that held neither bits nor endian (an arch write would have
\* cascaded into it), and arch reads another architecture than kernel
C26_Witness ==
    /\ KernelWritten
    /\ Read(last.t, "kernel") # last.val
    /\ ~dict_contains(Store(last.t).cur, "bits")
    /\ ~dict_contains(Store(last.t).cur, "endian")
    /\ Read(last.t, "arch") # Read(last.t, "kernel")
    /\ Read(last.t, "bits") # dict_getitem(architectures[Read(last.t, "kernel").s], "bits")

\* the last two steps were successful writes of fields f and g, in this
\* order, by one thread
WrittenInTurn(f, g) ==
    /\ prev.op = "set" /\ prev.name = f /\ prev.exc = ""
    /\ last.op = "set" /\ last.name = g /\ last.exc = ""
    /\ prev.t = last.t

\* what arch, bits and endian read after the writes of the last two steps
\* taken in the other order from the layer the first of them started in
Swapped(f) ==
    validator_fget(Assignments(Before(prev), <<entry(last.name, last.val),
                                               entry(prev.name, prev.val)>>), f).ret

\* C27: arch = A then bits = B, and bits = B then arch = A, from the same
\* layer, end with the same arch, bits and endian, and bits reads B.
C27_ArchAndBitsCommute ==
    (WrittenInTurn("arch", "bits") \/ WrittenInTurn("bits", "arch"))
        => /\ \A f \in {"arch", "bits", "endian"} : Read(last.t, f) = Swapped(f)
           /\ Read(last.t, "bits") =
                 IF last.name = "bits" THEN last.val ELSE prev.val

\* C27, its case: arch was written before a bits other than the
\* architecture's, in a layer that held an endian other than the
\* architecture's but no bits, so the first write cascaded into bits only
C27_Witness ==
    /\ WrittenInTurn("arch", "bits")
    /\ dict_contains(prev.cur, "endian") /\ ~dict_contains(prev.cur, "bits")
    /\ dict_getitem(last.cur, "bits") # last.val
    /\ Read(last.t, "bits") = last.val
    /\ Read(last.t, "endian") # dict_getitem(architectures[Read(last.t, "arch").s], "endian")

\* what leaving a local scope leaves behind
ExitDone ==
    /\ last.op = "exit" => sock = last.sock
    /\ ( /\ last.op = "enter" /\ last.exc = ""
         /\ last.kw = <<entry("proxy", PyStr(s_localhost))>> )
          => sock = "socks.socksocket"
    /\ ( /\ last.op = "exit" /\ last.exc = ""
         /\ prev.op = "enter" /\ prev.exc = "" /\ prev.t = last.t
         /\ prev.kw = <<entry("proxy", PyStr(s_localhost))>>
         /\ ~dict_contains(prev.cur, "proxy") )
          => /\ Read(last.t, "proxy") = PyNone
             /\ ~dict_contains(Store(last.t).cur, "proxy")

\* C28: the step that leaves a local scope replaces the layer and does not
\* touch socket.socket, which the step entering local(proxy = H) has made
\* the proxied constructor: after `with context.local(proxy = H)`, entered
\* where no proxy was stored, proxy reads None again while socket.socket
\* is what it was inside the scope.
C28_ExitLeavesSocket == [][ops' = ops + 1 => ExitDone']_vars

\* C28, its case: the scope was entered while socket.socket was the original
\* constructor and has been left
C28_Witness ==
    /\ last.op = "exit" /\ last.exc = "" /\ actor = last.t
    /\ prev.op = "enter" /\ prev.exc = "" /\ prev.t = last.t
    /\ prev.kw = <<entry("proxy", PyStr(s_localhost))>>
    /\ prev.sock = "socket.socket"
    /\ Read(last.t, "proxy") = PyNone
    /\ sock = "socks.socksocket"

====
